---- MODULE Spec2Model ----
(***************************************************************************)
(* State-machine model of src/main.py: the Trainer of the self-labelling   *)
(* training controller (alternating SGD epochs and Sinkhorn-Knopp label    *)
(* reassignment on a quadratic threshold schedule).                        *)
(*                                                                         *)
(* Numbers.  The thresholds of main.py:135-136 are the reals               *)
(*     (num_epochs + 1.01) * N * (i / (nopts - 1)) ^ 2 ,  i = nopts-1 .. 0 *)
(* and the sentinel (num_epochs + 2) * N.  The model keeps every threshold *)
(* as the integer  Scale(nopts) * threshold, with                          *)
(* Scale(nopts) = 100 * (nopts - 1)^2, and multiplies the other side of    *)
(* each comparison by the same factor, so every comparison of the source   *)
(* is decided exactly as in real arithmetic.                               *)
(*                                                                         *)
(* The learning rate lr * 0.1 ** k is kept as its decay exponent k; for    *)
(* the exponents the model reaches (at most MaxEpochs + 1, lr # 0),        *)
(* distinct exponents are distinct floats.                                 *)
(***************************************************************************)
EXTENDS Integers, Sequences, FiniteSets, TLC

VARIABLES
    args,            \* the global argparse namespace: batch_size, nopts, lrdrop
    loader,          \* train_loader: dataset_len = len(loader.dataset), len = len(loader)
    loss_values,     \* the average losses an epoch of this data can produce
    ckpt_dir,        \* the ckpt_dir argument of Trainer.__init__
    num_heads,       \* self.num_heads
    num_clusters_per_head,  \* self.num_clusters_per_head
    outs,            \* self.outs
    num_epochs,      \* self.num_epochs
    checkpoint_dir,  \* self.checkpoint_dir
    resume,          \* self.resume
    optimize_times,  \* self.optimize_times (scaled), a stack whose top is its last element
    L,               \* self.L, the label matrix (by origin and revision)
    headcount,       \* self.model.headcount
    first_epoch,     \* run(): first_epoch
    lowest_loss,     \* run(): lowest_loss
    epoch,           \* run(): epoch
    index,           \* train_on_epoch(): index of the batch loop
    global_step,     \* train_on_epoch(): global_step
    lr,              \* pg['lr'] of the optimizer, as a decay exponent
    m_loss,          \* the {'loss': ...} train_on_epoch returned
    store,           \* the checkpoint files, per directory and slot
    pc,              \* position of the control thread
    err,             \* the exception run() ended with
    fired,           \* history: the reassignment events of this run
    saves,           \* history: the save_checkpoint_all calls of this run
    epochs_run,      \* history: the epochs train_on_epoch was called with
    L_matrix,        \* the numpy matrix run() builds for fresh labels, row per head
    head_idex,       \* run(): head_idex of the label initialisation loop
    loss_history,    \* history: the m['loss'] of every epoch of this run, in order
    best_loss        \* history: the loss of the epoch the 'lowest' slot on disk holds

vars == <<args, loader, loss_values, ckpt_dir, num_heads, num_epochs, checkpoint_dir, resume,
          optimize_times, L, headcount, first_epoch, lowest_loss, epoch, index,
          global_step, lr, m_loss, store, pc, err, fired, saves, epochs_run,
          num_clusters_per_head, outs, L_matrix, head_idex, loss_history, best_loss>>

inputs == <<args, loader, loss_values, ckpt_dir, num_heads, num_epochs, checkpoint_dir, resume,
            num_clusters_per_head, outs>>

labelvars == <<L_matrix, head_idex>>

lossvars == <<loss_history, best_loss>>

----------------------------------------------------------------------------
(* Bounds of the model *)

MaxEpochs == 3
MaxN == 3
MaxBatch == 3
MaxOpts == 3
MaxLrDrop == 2
MaxLoss == 1
MaxHeads == 2
MaxClusters == 3

(* Program constants *)

LowestLossInit == 1000000000
FreezeEpoch == 350
FreezeExponent == 3
SentinelEpochs == 2
LastThresholdCent == 101
DefaultClusters == 3000

None == "None"
NoLoss == -1
Unset == [origin |-> "unset", rev |-> 0]
NoCkpt == [present |-> FALSE, epoch |-> 0, L |-> Unset]
Slots == {"latest", "lowest", "pre-lr-drop", "final"}

----------------------------------------------------------------------------
(* Pure functions *)

Scale(nopts) == IF nopts >= 2 THEN 100 * (nopts - 1) * (nopts - 1) ELSE 100

\* (self.num_epochs + 2) * N
Sentinel(E, N, nopts) == (E + SentinelEpochs) * N * Scale(nopts)

\* the thresholds spaced evenly: linspace without the ** 2
Threshold_Linear(E, N, nopts, i) == (100 * E + LastThresholdCent) * N * i * (nopts - 1)

\* (self.num_epochs + 1.01) * N * np.linspace(0, 1, nopts)[i] ** 2
Threshold(E, N, nopts, i) == (100 * E + LastThresholdCent) * N * i * i

\* the schedule with the [::-1] left out: the thresholds in ascending order
ComputeSchedule_Unreversed(E, N, nopts) ==
    <<Sentinel(E, N, nopts)>> \o [j \in 1..nopts |-> Threshold(E, N, nopts, j - 1)]

\* [(num_epochs + 2) * N] + ((num_epochs + 1.01) * N * (linspace ** 2)[::-1]).tolist()
ComputeSchedule(E, N, nopts) ==
    <<Sentinel(E, N, nopts)>> \o [j \in 1..nopts |-> Threshold(E, N, nopts, nopts - j)]

\* include = [(qq / N >= first_epoch) for qq in optimize_times]; array[include]
FilterKeeps(qq, fe, N, nopts) == qq >= fe * N * Scale(nopts)

ResumeFilter(ts, fe, N, nopts) ==
    SelectSeq(ts, LAMBDA qq : FilterKeeps(qq, fe, N, nopts))

\* the due-check with > for >=
Due_Strict(step, batch_size, ts, nopts) == step * batch_size * Scale(nopts) > ts[Len(ts)]

\* global_step * args.batch_size >= self.optimize_times[-1]
Due(step, batch_size, ts, nopts) == step * batch_size * Scale(nopts) >= ts[Len(ts)]

\* pop(0): the head of the list removed instead of its tail
Pop_Head(ts) == SubSeq(ts, 2, Len(ts))

\* self.optimize_times.pop()
Pop(ts) == SubSeq(ts, 1, Len(ts) - 1)

\* the schedule frozen one epoch late: epoch <= 350 for epoch < 350
LrSchedule_LateFreeze(e, lrdrop) == IF e <= FreezeEpoch THEN e \div lrdrop ELSE FreezeExponent

\* self.lr_schedule(epoch), as the exponent k of lr * 0.1 ** k
LrSchedule(e, lrdrop) == IF e < FreezeEpoch THEN e \div lrdrop ELSE FreezeExponent

\* the condition comparing the epoch with the previous one instead of the next one
PreDropDue_Previous(e, lrdrop) == LrSchedule(e, lrdrop) # LrSchedule(e - 1, lrdrop)

\* the condition under which train_on_epoch writes the 'pre-lr-drop' checkpoint
PreDropDue(e, lrdrop) == LrSchedule(e + 1, lrdrop) # LrSchedule(e, lrdrop)

\* the comparison with <= for <
IsLower_OrEqual(loss, lowest) == loss <= lowest

\* m['loss'] < lowest_loss
IsLower(loss, lowest) == loss < lowest

\* epoch * len(loader) + index
GlobalStep(e, len, i) == e * len + i

\* while epoch < (self.num_epochs + 1)
LoopContinues(e, E) == e < E + 1

----------------------------------------------------------------------------
(* The collaborators of the repository that are not part of main.py *)

\* files.save_checkpoint_all(dir, model, arch, optimizer, L, epoch, lowest, save_str)
SaveCheckpoint(st, dir, slot, labels, e) ==
    [st EXCEPT ![dir][slot] = [present |-> TRUE, epoch |-> e, L |-> labels]]

\* files.load_checkpoint_all(dir, model, optimizer) -> (L, first_epoch): the epoch to
\* resume at is the one after the epoch the latest checkpoint was written in; no
\* checkpoint gives epoch 0
LoadCheckpoint(st, dir) ==
    IF st[dir]["latest"].present
    THEN [L |-> st[dir]["latest"].L, epoch |-> st[dir]["latest"].epoch + 1]
    ELSE [L |-> Unset, epoch |-> 0]

\* sk.cpu_sk(self) / sk.gpu_sk(self): replaces the whole label matrix
SinkhornKnopp(labels) == [origin |-> "sk", rev |-> labels.rev + 1]

\* len(loader) of a torch DataLoader over N examples
LoaderLen(N, batch_size, drop_last) ==
    IF drop_last THEN N \div batch_size ELSE (N + batch_size - 1) \div batch_size

----------------------------------------------------------------------------
(* Inputs: the command line, the data set and the checkpoint directory *)

Dir == "exp/checkpoints"
Dirs == {None, Dir}

GridConfigs ==
    [num_epochs : 0..MaxEpochs, N : 1..MaxN, batch_size : 1..MaxBatch,
     drop_last : BOOLEAN, nopts : 0..MaxOpts, lrdrop : 1..MaxLrDrop,
     num_heads : 1..MaxHeads, losses : {0..MaxLoss}, ncl : {DefaultClusters}]

\* the end-to-end scenario: N=1000, batch_size=100, num_epochs=3, num_events=2
EndToEnd ==
    [num_epochs |-> 3, N |-> 1000, batch_size |-> 100, drop_last |-> FALSE,
     nopts |-> 2, lrdrop |-> 150, num_heads |-> 1, losses |-> 0..MaxLoss,
     ncl |-> DefaultClusters]

\* a run long enough to pass the epochs 150, 300, 350 and 1000 with --lrdrop 150
LongRun ==
    [num_epochs |-> 1000, N |-> 1, batch_size |-> 1, drop_last |-> FALSE,
     nopts |-> 2, lrdrop |-> 150, num_heads |-> 1, losses |-> {0},
     ncl |-> DefaultClusters]

\* a run with --lrdrop 50 that passes the epochs 349 and 350
FreezeRun ==
    [num_epochs |-> 350, N |-> 1, batch_size |-> 1, drop_last |-> FALSE,
     nopts |-> 2, lrdrop |-> 50, num_heads |-> 1, losses |-> {0},
     ncl |-> DefaultClusters]

Configs == GridConfigs \cup {EndToEnd, LongRun, FreezeRun}

\* the epochs a checkpoint left in the directory by an earlier process can hold
CkptEpochs(E) == {e \in 0..(E + 1) : e <= MaxEpochs + 1 \/ e >= E} \cup {E + 9}

DiskCheckpoints(E) ==
    {NoCkpt} \cup {[present |-> TRUE, epoch |-> e, L |-> [origin |-> "checkpoint", rev |-> 0]] :
                      e \in CkptEpochs(E)}

\* Trainer.__init__ and the caller's setup, given the value self.checkpoint_dir ends with
\* and the 'latest' and 'lowest' checkpoints an earlier process left in the directory
ConstructOnDisk(c, ck, low, low_loss, field) ==
    /\ args = [batch_size |-> c.batch_size, nopts |-> c.nopts, lrdrop |-> c.lrdrop]
    /\ loader = [dataset_len |-> c.N, len |-> LoaderLen(c.N, c.batch_size, c.drop_last)]
    /\ loss_values = c.losses
    /\ ckpt_dir = Dir
    /\ num_heads = c.num_heads
    /\ num_clusters_per_head = c.ncl
    /\ outs = [h \in 1..c.num_heads |-> c.ncl]
    /\ L_matrix = <<>>
    /\ head_idex = 0
    /\ num_epochs = c.num_epochs
    /\ checkpoint_dir = field
    /\ resume = TRUE
    /\ optimize_times = <<>>
    /\ L = Unset
    /\ headcount = c.num_heads
    /\ first_epoch = 0
    /\ lowest_loss = LowestLossInit
    /\ epoch = 0
    /\ index = 0
    /\ global_step = 0
    /\ lr = 0
    /\ m_loss = 0
    /\ store = [d \in Dirs |-> [s \in Slots |-> IF d = Dir /\ s = "latest" THEN ck
                                             ELSE IF d = Dir /\ s = "lowest" THEN low
                                             ELSE NoCkpt]]
    /\ loss_history = <<>>
    /\ best_loss = low_loss
    /\ pc = "start"
    /\ err = None
    /\ fired = <<>>
    /\ saves = <<>>
    /\ epochs_run = <<>>

\* the same with no 'lowest' checkpoint in the directory
Construct(c, ck, field) == ConstructOnDisk(c, ck, NoCkpt, NoLoss, field)

\* the Trainer as __init__ leaves it: line 37 resets self.checkpoint_dir to None
Init == \E c \in Configs : \E ck \in DiskCheckpoints(c.num_epochs) : Construct(c, ck, None)

\* a Trainer whose checkpoint_dir attribute names the directory when run() is called,
\* which is the only state in which lines 143-147 of run() execute
InitResume == \E c \in GridConfigs \cup {EndToEnd} : \E ck \in DiskCheckpoints(c.num_epochs) : Construct(c, ck, Dir)

\* the runs that are restarted after a crash
RestartConfigs ==
    [num_epochs : 1..MaxEpochs, N : 1..MaxN, batch_size : 1..MaxBatch, drop_last : {FALSE},
     nopts : {2}, lrdrop : {1}, num_heads : {1}, losses : {0..MaxLoss},
     ncl : {DefaultClusters}]

\* a checkpoint written at the end of epoch e
CheckpointOf(e) == [present |-> TRUE, epoch |-> e, L |-> [origin |-> "checkpoint", rev |-> 0]]

\* a Trainer started again after a crash: the process that crashed left its 'latest'
\* checkpoint of epoch e and a 'lowest' checkpoint of an epoch up to e in the directory
InitRestart ==
    \E c \in RestartConfigs : \E e \in 0..(c.num_epochs - 1) : \E le \in 0..e :
        \E low_loss \in c.losses :
            ConstructOnDisk(c, CheckpointOf(e), CheckpointOf(le), low_loss, Dir)

----------------------------------------------------------------------------
(* Actions *)

N == loader.dataset_len

SaveRecord(tag, e, i) == [tag |-> tag, epoch |-> e, batches |-> i, dir |-> checkpoint_dir]

\* run(), lines 131-161: schedule, resume or fresh labels, start of the epoch loop
RunStart ==
    /\ pc = "start"
    /\ LET schedule == ComputeSchedule(num_epochs, N, args.nopts)
           resumed == checkpoint_dir # None /\ resume
           loaded == LoadCheckpoint(store, checkpoint_dir)
           fe == IF resumed THEN loaded.epoch ELSE 0
       IN  /\ first_epoch' = fe
           /\ optimize_times' = IF resumed THEN ResumeFilter(schedule, fe, N, args.nopts)
                                           ELSE schedule
           /\ L' = IF fe = 0 THEN [origin |-> "fresh", rev |-> 0]
                   ELSE loaded.L
           /\ epoch' = fe
    /\ lowest_loss' = LowestLossInit
    /\ pc' = "loop"
    /\ UNCHANGED <<inputs, lossvars, labelvars, headcount, index, global_step, lr, m_loss, store, err,
                   fired, saves, epochs_run>>

\* train_on_epoch(), lines 69-82: pre-lr-drop checkpoint, learning rate, first batch
EpochBegin ==
    /\ pc = "loop"
    /\ LoopContinues(epoch, num_epochs)
    /\ epochs_run' = Append(epochs_run, epoch)
    /\ IF PreDropDue(epoch, args.lrdrop)
       THEN /\ store' = SaveCheckpoint(store, checkpoint_dir, "pre-lr-drop", L, epoch)
            /\ saves' = Append(saves, SaveRecord("pre-lr-drop", epoch, 0))
       ELSE UNCHANGED <<store, saves>>
    /\ lr' = LrSchedule(epoch, args.lrdrop)
    /\ index' = 0
    /\ pc' = "batch"
    /\ UNCHANGED <<inputs, lossvars, labelvars, optimize_times, L, headcount, first_epoch, lowest_loss, epoch,
                   global_step, m_loss, err, fired>>

\* train_on_epoch(), lines 82-92: the due-check of one batch and its reassignment
DueCheck ==
    /\ pc = "batch"
    /\ index < loader.len
    /\ LET step == GlobalStep(epoch, loader.len, index)
       IN  /\ global_step' = step
           /\ IF optimize_times = <<>>
              THEN \* self.optimize_times[-1] of an empty list
                   /\ pc' = "raised"
                   /\ err' = "IndexError"
                   /\ UNCHANGED <<optimize_times, L, headcount, fired>>
              ELSE IF Due(step, args.batch_size, optimize_times, args.nopts)
              THEN /\ headcount' = 1
                   /\ optimize_times' = Pop(optimize_times)
                   /\ L' = SinkhornKnopp(L)
                   /\ fired' = Append(fired, [t |-> optimize_times[Len(optimize_times)],
                                              step |-> step, epoch |-> epoch])
                   /\ pc' = "forward"
                   /\ UNCHANGED err
              ELSE /\ pc' = "forward"
                   /\ UNCHANGED <<optimize_times, L, headcount, fired, err>>
    /\ UNCHANGED <<inputs, lossvars, labelvars, first_epoch, lowest_loss, epoch, index, lr, m_loss, store,
                   saves, epochs_run>>

\* train_on_epoch(), lines 93-108: forward, loss, backward, optimizer step
TrainStep ==
    /\ pc = "forward"
    /\ index' = index + 1
    /\ pc' = "batch"
    /\ UNCHANGED <<inputs, lossvars, labelvars, optimize_times, L, headcount, first_epoch, lowest_loss, epoch,
                   global_step, lr, m_loss, store, err, fired, saves, epochs_run>>

\* train_on_epoch(), lines 121-127: the end-of-epoch checkpoint and the average loss
EpochEnd ==
    /\ pc = "batch"
    /\ index = loader.len
    /\ store' = SaveCheckpoint(store, checkpoint_dir, "latest", L, epoch)
    /\ saves' = Append(saves, SaveRecord("latest", epoch, index))
    /\ \E loss \in (IF loader.len = 0 THEN {0} ELSE loss_values) :
          /\ m_loss' = loss
          /\ loss_history' = Append(loss_history, loss)
    /\ pc' = "ran_epoch"
    /\ UNCHANGED <<inputs, labelvars, optimize_times, L, headcount, first_epoch, lowest_loss, epoch,
                   index, global_step, lr, err, fired, epochs_run, best_loss>>

\* run(), lines 165-169: the lowest-loss checkpoint and the next epoch
TrackBest ==
    /\ pc = "ran_epoch"
    /\ IF IsLower(m_loss, lowest_loss)
       THEN /\ lowest_loss' = m_loss
            /\ store' = SaveCheckpoint(store, checkpoint_dir, "lowest", L, epoch)
            /\ saves' = Append(saves, SaveRecord("lowest", epoch, index))
            /\ best_loss' = m_loss
       ELSE UNCHANGED <<lowest_loss, store, saves, best_loss>>
    /\ epoch' = epoch + 1
    /\ pc' = "loop"
    /\ UNCHANGED <<inputs, labelvars, optimize_times, L, headcount, first_epoch, index, global_step,
                   lr, m_loss, err, fired, epochs_run, loss_history>>

\* run(), lines 170-172: os.path.join(self.checkpoint_dir, 'model_final.pth.tar')
Finish ==
    /\ pc = "loop"
    /\ ~LoopContinues(epoch, num_epochs)
    /\ IF checkpoint_dir = None
       THEN \* os.path.join(None, ...) raises TypeError
            /\ pc' = "raised"
            /\ err' = "TypeError"
            /\ UNCHANGED store
       ELSE /\ store' = SaveCheckpoint(store, checkpoint_dir, "final", L, epoch)
            /\ pc' = "done"
            /\ UNCHANGED err
    /\ UNCHANGED <<inputs, lossvars, labelvars, optimize_times, L, headcount, first_epoch, lowest_loss, epoch,
                   index, global_step, lr, m_loss, fired, saves, epochs_run>>

Next == RunStart \/ EpochBegin \/ DueCheck \/ TrainStep \/ EpochEnd \/ TrackBest \/ Finish

Spec == Init /\ [][Next]_vars

SpecResume == InitResume /\ [][Next]_vars

SpecRestart == InitRestart /\ [][Next]_vars

----------------------------------------------------------------------------
(* Fresh labels: lines 150-157 of run(), step by step *)

\* the runs whose label matrix is built element by element
LabelConfigs ==
    [num_epochs : {0}, N : 1..MaxN, batch_size : {1}, drop_last : {FALSE}, nopts : {0},
     lrdrop : {1}, num_heads : 1..MaxHeads, losses : {{0}}, ncl : 1..MaxClusters]

InitLabels == \E c \in LabelConfigs : Construct(c, NoCkpt, None)

\* index % self.outs[head_idex]
LabelOf(i, k) == i % k

\* np.random.permutation drawing with replacement
RandomPermutation_WithReplacement(n) == [1..n -> 1..n]

\* the reorderings np.random.permutation can return for a row of n entries
RandomPermutation(n) == {p \in [1..n -> 1..n] : \A i, j \in 1..n : p[i] = p[j] => i = j}

\* run(), lines 131-152: as RunStart, up to np.zeros((self.num_heads, N))
StartLabels ==
    /\ pc = "start"
    /\ LET schedule == ComputeSchedule(num_epochs, N, args.nopts)
           resumed == checkpoint_dir # None /\ resume
           loaded == LoadCheckpoint(store, checkpoint_dir)
           fe == IF resumed THEN loaded.epoch ELSE 0
       IN  /\ first_epoch' = fe
           /\ optimize_times' = IF resumed THEN ResumeFilter(schedule, fe, N, args.nopts)
                                           ELSE schedule
           /\ IF fe = 0
              THEN /\ L_matrix' = [h \in 1..num_heads |-> [i \in 1..N |-> 0]]
                   /\ head_idex' = 0
                   /\ pc' = "fill"
                   /\ UNCHANGED <<L, lowest_loss, epoch>>
              ELSE /\ L' = loaded.L
                   /\ lowest_loss' = LowestLossInit
                   /\ epoch' = fe
                   /\ pc' = "loop"
                   /\ UNCHANGED labelvars
    /\ UNCHANGED <<inputs, lossvars, headcount, index, global_step, lr, m_loss, store, err, fired,
                   saves, epochs_run>>

\* lines 153-155: row head_idex gets index % self.outs[head_idex] for every index
FillRow ==
    /\ pc = "fill"
    /\ head_idex < num_heads
    /\ L_matrix' = [L_matrix EXCEPT ![head_idex + 1] =
                       [i \in 1..N |-> LabelOf(i - 1, outs[head_idex + 1])]]
    /\ pc' = "permute"
    /\ UNCHANGED <<inputs, lossvars, head_idex, optimize_times, L, headcount, first_epoch, lowest_loss,
                   epoch, index, global_step, lr, m_loss, store, err, fired, saves,
                   epochs_run>>

\* line 156: self.L[head_idex] = np.random.permutation(self.L[head_idex])
PermuteRow ==
    /\ pc = "permute"
    /\ \E p \in RandomPermutation(N) :
          L_matrix' = [L_matrix EXCEPT ![head_idex + 1] =
                        [i \in 1..N |-> L_matrix[head_idex + 1][p[i]]]]
    /\ head_idex' = head_idex + 1
    /\ pc' = "fill"
    /\ UNCHANGED <<inputs, lossvars, optimize_times, L, headcount, first_epoch, lowest_loss, epoch,
                   index, global_step, lr, m_loss, store, err, fired, saves, epochs_run>>

\* lines 157-161: torch.LongTensor(self.L), lowest_loss, epoch = first_epoch
ToTensor ==
    /\ pc = "fill"
    /\ head_idex = num_heads
    /\ L' = [origin |-> "fresh", rev |-> 0]
    /\ lowest_loss' = LowestLossInit
    /\ epoch' = first_epoch
    /\ pc' = "loop"
    /\ UNCHANGED <<inputs, lossvars, labelvars, optimize_times, headcount, first_epoch, index,
                   global_step, lr, m_loss, store, err, fired, saves, epochs_run>>

NextLabels == StartLabels \/ FillRow \/ PermuteRow \/ ToTensor

SpecLabels == InitLabels /\ [][NextLabels]_vars

----------------------------------------------------------------------------
(* The reassignment events of a whole run, as a function of where it starts *)

\* the batch loop of train_on_epoch (lines 82-92) inside the epoch loop of run
\* (lines 162-169): the events fired from batch i of epoch e on, with stack ts
RECURSIVE EventsFrom(_, _, _)
EventsFrom(e, i, ts) ==
    IF ~LoopContinues(e, num_epochs) THEN <<>>
    ELSE IF i >= loader.len THEN EventsFrom(e + 1, 0, ts)
    ELSE IF ts = <<>> THEN <<>>
    ELSE LET step == GlobalStep(e, loader.len, i)
         IN  IF Due(step, args.batch_size, ts, args.nopts)
             THEN <<[t |-> ts[Len(ts)], step |-> step, epoch |-> e]>>
                  \o EventsFrom(e, i + 1, Pop(ts))
             ELSE EventsFrom(e, i + 1, ts)

\* the events of the run that starts fresh at epoch 0 and is never interrupted
UninterruptedEvents == EventsFrom(0, 0, ComputeSchedule(num_epochs, N, args.nopts))

Ended == pc \in {"done", "raised"}

----------------------------------------------------------------------------
(* Resume *)

\* run() has reached the epoch loop and no epoch has started
AtRunStart == pc = "loop" /\ epochs_run = <<>>

FullSchedule == ComputeSchedule(num_epochs, N, args.nopts)

\* C2: constructed with a checkpoint directory that holds a checkpoint, and resume
\* enabled, run() starts at the restored epoch with the restored labels and the
\* filtered thresholds; labels are initialised fresh only when nothing is resumed
C2_ResumesFromCheckpoint ==
    (AtRunStart /\ resume /\ store[ckpt_dir]["latest"].present) =>
        LET ck == LoadCheckpoint(store, ckpt_dir)
        IN  /\ first_epoch = ck.epoch
            /\ epoch = ck.epoch
            /\ L = ck.L
            /\ L.origin # "fresh"
            /\ optimize_times = ResumeFilter(FullSchedule, ck.epoch, N, args.nopts)

----------------------------------------------------------------------------
(* The end-to-end scenario *)

IsEndToEnd ==
    /\ num_epochs = 3 /\ N = 1000 /\ args.batch_size = 100 /\ args.nopts = 2
    /\ loader.len = 10 /\ first_epoch = 0

\* the event fired at the first global step whose example count reaches its threshold
FiresAtFirstDueStep(ev) ==
    /\ ev.step * args.batch_size * Scale(args.nopts) >= ev.t
    /\ ev.step > 0 => (ev.step - 1) * args.batch_size * Scale(args.nopts) < ev.t

\* C3 as stated: the scenario fires exactly 2 events, each at its first due step
C3_TwoEventsFire ==
    (IsEndToEnd /\ Ended) =>
        /\ Len(fired) = 2
        /\ \A k \in 1..Len(fired) : FiresAtFirstDueStep(fired[k])

\* C3 amended: the scenario fires exactly 1 event over the whole run, threshold 0 at
\* global step 0; the threshold 4010 stays on the stack, above the example count 3900
\* of the last batch (global step 39); the event fired is at its first due step
C3_OneEventFires ==
    /\ IsEndToEnd => Len(fired) <= 1
    /\ (IsEndToEnd /\ Ended) =>
        /\ Len(fired) = 1
        /\ fired[1].t = 0 /\ fired[1].step = 0
        /\ FiresAtFirstDueStep(fired[1])
        /\ global_step = 39
        /\ optimize_times = <<5000 * Scale(2), 4010 * Scale(2)>>
        /\ global_step * args.batch_size * Scale(2) < 4010 * Scale(2)

C3_Witness == IsEndToEnd /\ Ended /\ epochs_run = <<0, 1, 2, 3>> /\ Len(fired) = 1

----------------------------------------------------------------------------
(* The schedule *)

\* C4: the sentinel is on the stack at every due-check and is never popped
C4_SentinelNeverPopped ==
    pc \notin {"start"} =>
        /\ optimize_times # <<>>
        /\ optimize_times[1] = Sentinel(num_epochs, N, args.nopts)

StrictlyDescending(ts) == \A j \in 1..(Len(ts) - 1) : ts[j] > ts[j + 1]

\* (num_epochs + 1.01) * N in the units of the stack
LastThreshold == (100 * num_epochs + 101) * N * (Scale(args.nopts) \div 100)

\* C5 as stated: sentinel, then nopts strictly descending thresholds, the smallest > 0
\* and the largest < (num_epochs + 1.01) * N
C5_ScheduleOpenRange ==
    (AtRunStart /\ first_epoch = 0) =>
        /\ Len(optimize_times) = args.nopts + 1
        /\ optimize_times[1] = Sentinel(num_epochs, N, args.nopts)
        /\ StrictlyDescending(optimize_times)
        /\ args.nopts >= 1 =>
              /\ optimize_times[Len(optimize_times)] > 0
              /\ optimize_times[2] < LastThreshold

\* C5 amended: sentinel, then nopts strictly descending thresholds; the smallest is 0
\* and the largest is at most (num_epochs + 1.01) * N, which it equals when nopts >= 2
C5_ScheduleClosedRange ==
    (AtRunStart /\ first_epoch = 0) =>
        /\ Len(optimize_times) = args.nopts + 1
        /\ optimize_times[1] = Sentinel(num_epochs, N, args.nopts)
        /\ StrictlyDescending(optimize_times)
        /\ args.nopts >= 1 =>
              /\ optimize_times[Len(optimize_times)] = 0
              /\ optimize_times[2] <= LastThreshold
        /\ args.nopts >= 2 => optimize_times[2] = LastThreshold

C5_Witness == AtRunStart /\ first_epoch = 0 /\ args.nopts = 3 /\ num_epochs = 2

\* first_epoch lies above the epoch equivalent t / N of every non-sentinel threshold
AboveEveryThreshold ==
    \A j \in 2..Len(FullSchedule) : FullSchedule[j] < first_epoch * N * Scale(args.nopts)

----------------------------------------------------------------------------
(* The epoch loop *)

\* C7: run() ends by writing model_final.pth.tar under the directory the Trainer was
\* constructed with and returning the model; it does not raise
C7_RunCompletes ==
    Ended => /\ pc = "done"
             /\ err = None
             /\ store[ckpt_dir]["final"].present

LatestSaves == SelectSeq(saves, LAMBDA r : r.tag = "latest")

\* C8: at the end of run() the epoch runner has been invoked exactly once for each
\* epoch first_epoch..num_epochs, in increasing order, and each of these epochs wrote
\* its end-of-epoch checkpoint exactly once, after its last batch
C8_EveryEpochOnce ==
    /\ \A k \in 1..Len(epochs_run) : epochs_run[k] = first_epoch + k - 1
    /\ \A k \in 1..Len(LatestSaves) :
          LatestSaves[k].epoch = first_epoch + k - 1 /\ LatestSaves[k].batches = loader.len
    /\ Ended =>
          /\ Len(epochs_run) = (IF num_epochs >= first_epoch
                                THEN num_epochs - first_epoch + 1 ELSE 0)
          /\ Len(LatestSaves) = Len(epochs_run)

----------------------------------------------------------------------------
(* The learning rate *)

InEpoch == pc \in {"batch", "forward", "ran_epoch"}

\* a 'pre-lr-drop' checkpoint was written at the start of epoch e, before its first batch
PreDropWritten(e) ==
    \E k \in 1..Len(saves) :
        saves[k].tag = "pre-lr-drop" /\ saves[k].epoch = e /\ saves[k].batches = 0

\* the scheduled rate of epoch e, as the exponent k of base_lr * 0.1^k
ScheduledExponent(e) == IF e < 350 THEN e \div args.lrdrop ELSE 3

\* C9 as stated: the pre-lr-drop checkpoint is written at the start of epoch e exactly
\* when the rate of epoch e differs from the rate of epoch e-1
C9_PreDropWhenRateChanged ==
    InEpoch => (PreDropWritten(epoch) <=>
                  (epoch >= 1 /\ ScheduledExponent(epoch) # ScheduledExponent(epoch - 1)))

\* C9 amended: the pre-lr-drop checkpoint is written at the start of epoch e, before its
\* first batch, exactly when the rate of the next epoch e+1 differs from the rate of
\* epoch e: it holds the parameters one epoch before the new rate is applied
C9_PreDropWhenRateWillChange ==
    InEpoch => (PreDropWritten(epoch) <=>
                  ScheduledExponent(epoch + 1) # ScheduledExponent(epoch))

C9_Witness ==
    /\ InEpoch /\ epoch = 149 /\ args.lrdrop = 150
    /\ PreDropWritten(149) /\ ~PreDropWritten(148)

\* C10: the rate applied in epoch e is base_lr * 0.1^(e // drop_interval) for e < 350
\* and base_lr * 0.1^3 from epoch 350 on; with drop_interval 150 the exponent is 0, 1,
\* 2, 3, 3 at the epochs 0, 150, 300, 350, 1000
C10_AppliedRate ==
    InEpoch =>
        /\ lr = ScheduledExponent(epoch)
        /\ args.lrdrop = 150 =>
              /\ epoch = 0 => lr = 0
              /\ epoch = 150 => lr = 1
              /\ epoch = 300 => lr = 2
              /\ epoch = 350 => lr = 3
              /\ epoch = 1000 => lr = 3

C10_Witness == InEpoch /\ args.lrdrop = 150 /\ epoch = 1000 /\ lr = 3

----------------------------------------------------------------------------
(* Fresh labels *)

\* the number of entries of row that equal c
Count(row, c) == Cardinality({i \in 1..Len(row) : row[i] = c})

LabelsBuilt == pc = "loop" /\ L.origin = "fresh" /\ L_matrix # <<>>

\* C11: fresh initialisation yields a num_heads x N matrix whose every row is a
\* permutation of i mod clusters_per_head, i in [0, N): each cluster id appears
\* floor(N / clusters_per_head) or that + 1 times, and every entry is a cluster id
C11_FreshLabelsBalanced ==
    LabelsBuilt =>
        /\ DOMAIN L_matrix = 1..num_heads
        /\ \A h \in 1..num_heads :
              /\ Len(L_matrix[h]) = N
              /\ \A i \in 1..N : L_matrix[h][i] \in 0..(num_clusters_per_head - 1)
              /\ \A c \in 0..(num_clusters_per_head - 1) :
                    /\ Count(L_matrix[h], c)
                         = Cardinality({i \in 0..(N - 1) : i % num_clusters_per_head = c})
                    /\ Count(L_matrix[h], c) \in {N \div num_clusters_per_head,
                                               N \div num_clusters_per_head + 1}

\* two heads that were given different orders of three cluster ids
C11_Witness ==
    /\ LabelsBuilt /\ num_heads = 2 /\ N = 3 /\ num_clusters_per_head = 2
    /\ L_matrix[1] = <<0, 1, 0>> /\ L_matrix[2] = <<1, 0, 0>>

----------------------------------------------------------------------------
(* The threshold stack during a run *)

\* a batch whose due-check finds only the sentinel on the stack, and finds it due
OnlySentinelDue ==
    /\ pc = "batch"
    /\ index < loader.len
    /\ optimize_times = <<Sentinel(num_epochs, N, args.nopts)>>
    /\ Due(GlobalStep(epoch, loader.len, index), args.batch_size, optimize_times, args.nopts)

\* C12: popping when only the sentinel remains fails and the failure is propagated:
\* the sentinel stays on the stack, no reassignment is performed and training stops
C12_PopOfSentinelFails ==
    [][OnlySentinelDue =>
          /\ pc' = "raised"
          /\ optimize_times' = optimize_times
          /\ L' = L
          /\ fired' = fired]_vars

\* C14: single-head mode is confined to the reassignment: every training forward
\* pass runs with the configured number of heads
C14_HeadcountRestored == pc = "forward" => headcount = num_heads

Reverse(ts) == [j \in 1..Len(ts) |-> ts[Len(ts) + 1 - j]]

FiredThresholds == [j \in 1..Len(fired) |-> fired[j].t]

\* C15: every threshold is consumed at most once, only by popping the tail of the stack
\* in the stored order; a reassignment fires only at a batch with global_step *
\* batch_size >= the tail, and a popped threshold never triggers again
C15_ConsumedOnceInOrder ==
    pc # "start" =>
        /\ optimize_times \o Reverse(FiredThresholds)
             = ResumeFilter(FullSchedule, first_epoch, N, args.nopts)
        /\ \A j \in 1..Len(fired) :
              fired[j].step * args.batch_size * Scale(args.nopts) >= fired[j].t
        /\ \A j, k \in 1..Len(fired) :
              j < k => fired[j].step < fired[k].step /\ fired[j].t < fired[k].t

\* three thresholds consumed, the stack down to the sentinel
C15_Witness == pc = "forward" /\ Len(fired) = 3 /\ Len(optimize_times) = 1

\* the non-sentinel thresholds of the schedule in increasing order
Ascending == Reverse(SubSeq(optimize_times, 2, Len(optimize_times)))

InRange ==
    \A j \in 1..Len(optimize_times) :
        optimize_times[j] >= 0 /\ optimize_times[j] <= Sentinel(num_epochs, N, args.nopts)

\* C16 as stated: in increasing order the gap between consecutive thresholds does not
\* grow (events denser near the end), and all thresholds lie in [0, (num_epochs+2)*N]
C16_GapsDoNotGrow ==
    (AtRunStart /\ first_epoch = 0) =>
        /\ \A j \in 1..(Len(Ascending) - 2) :
              Ascending[j + 2] - Ascending[j + 1] <= Ascending[j + 1] - Ascending[j]
        /\ InRange

\* C16 as the code has it: for a non-empty dataset the gap between consecutive
\* thresholds grows strictly (events denser near the start), all in [0, (num_epochs+2)*N]
C16_GapsGrow ==
    (AtRunStart /\ first_epoch = 0) =>
        /\ N > 0 =>
              \A j \in 1..(Len(Ascending) - 2) :
                  Ascending[j + 2] - Ascending[j + 1] > Ascending[j + 1] - Ascending[j]
        /\ InRange

C16_Witness == AtRunStart /\ first_epoch = 0 /\ args.nopts = 3 /\ N = 2 /\ num_epochs = 1

DueAt(t) == global_step * args.batch_size * Scale(args.nopts) >= t

FiredAtThisBatch == fired # <<>> /\ fired[Len(fired)].step = global_step

\* C17 as stated: before the forward pass of a batch no remaining threshold is due
C17_NoBacklog ==
    pc = "forward" => \A j \in 1..Len(optimize_times) : ~DueAt(optimize_times[j])

\* C17 as the code has it: a batch consumes at most one threshold, so a remaining
\* threshold can be due before the forward pass only at a batch that fired one
C17_BacklogOnlyAfterFiring ==
    pc = "forward" =>
        \/ FiredAtThisBatch
        \/ \A j \in 1..Len(optimize_times) : ~DueAt(optimize_times[j])

\* a batch that fired one threshold and leaves a due non-sentinel threshold behind
C17_Witness ==
    /\ pc = "forward" /\ FiredAtThisBatch
    /\ Len(optimize_times) >= 2
    /\ DueAt(optimize_times[Len(optimize_times)])

----------------------------------------------------------------------------
(* The learning rate over the epochs *)

\* C18: the learning rate only decays: the rate scheduled for epoch e + 1 is at most
\* the rate of epoch e, for every drop interval and every epoch, 349 to 350 included
\* (rates are exponents k of base_lr * 0.1^k, so a lower rate is a higher exponent)
C18_RateOnlyDecays == InEpoch => LrSchedule(epoch + 1, args.lrdrop) >= lr

----------------------------------------------------------------------------
(* The lowest-loss checkpoint *)

\* run() has just compared the loss of an epoch with the lowest so far
JustTracked == pc = "loop" /\ loss_history # <<>>

\* the positions in the order of writes of the checkpoints epoch e wrote under tag
WritesOf(tag, e) == {i \in 1..Len(saves) : saves[i].tag = tag /\ saves[i].epoch = e}

LowerThanEveryEarlier(k) == \A i \in 1..(k - 1) : loss_history[k] < loss_history[i]

\* C13: after each epoch the lowest-loss checkpoint is written if and only if the
\* epoch's average loss is strictly lower than that of every earlier epoch of the run;
\* it is written after, and independently of, the epoch's unconditional latest checkpoint
C13_BestWrittenIffLower ==
    JustTracked =>
        LET e == epoch - 1
        IN  /\ Cardinality(WritesOf("latest", e)) = 1
            /\ Cardinality(WritesOf("lowest", e)) <= 1
            /\ WritesOf("lowest", e) # {} <=> LowerThanEveryEarlier(Len(loss_history))
            /\ \A i \in WritesOf("lowest", e) : \A j \in WritesOf("latest", e) : j < i

\* the third epoch of a run is the first to get below the loss of the first epoch
C13_Witness ==
    /\ JustTracked /\ loss_history = <<1, 1, 0>>
    /\ WritesOf("lowest", epoch - 1) # {} /\ WritesOf("lowest", epoch - 2) = {}

\* a step that writes the 'lowest' slot
LowestWritten == Len(saves') = Len(saves) + 1 /\ saves'[Len(saves')].tag = "lowest"

====
